---- MODULE Spec2Model ----
(***************************************************************************)
(* Model of the hole-punch server's room registry (global_state.rs), of    *)
(* the encrypting Writer (client/encrypted_connection.rs) and of           *)
(* EncryptedReader (gday-encryption/src/reader.rs).                        *)
(***************************************************************************)
EXTENDS Integers, Sequences, FiniteSets, TLC

VARIABLES
    rooms,      \* State.rooms: the HashMap<RoomId, [Client; 2]> behind the mutex
    poisoned,   \* TRUE once a thread panicked while holding the mutex
    handles,    \* every oneshot channel created so far, by creation order
    timers,     \* the spawned room_timeout tasks, by deadline (all sleep 600 s)
    nextGen,    \* number of create_room calls so far + 1
    ncalls,     \* number of registry calls so far that found the lock and the room
    ret         \* the outcome of the last registry call

roomVars == <<rooms, poisoned, handles, timers, nextGen, ncalls, ret>>

VARIABLES
    wire,       \* the bytes the underlying source of EncryptedReader will deliver
    rpos,       \* how many of them it has delivered
    srcEof,     \* TRUE once the source has reported end-of-stream (a read of 0 bytes)
    stream,     \* how wire was produced, and the plaintext it carries
    ciphertext, \* EncryptedReader.ciphertext: HelperBuf of capacity 2 * MAX_CHUNK_SIZE
    cleartext,  \* EncryptedReader.cleartext: HelperBuf of capacity MAX_CHUNK_SIZE
    decryptor,  \* the DecryptorLE31's chunk counter
    rcall,      \* the poll in progress (inside read_if_necessary's loop), or idle
    rres,       \* what the last completed poll returned
    out,        \* the bytes handed to the caller so far
    rtrace      \* what the poll did with the source: whether the source returned
                \* Pending, and the parity of the number of source reads it made

readerVars == <<wire, rpos, srcEof, stream, ciphertext, cleartext, decryptor, rcall, rres, out,
                rtrace>>

VARIABLES
    sink,             \* the bytes the Writer's underlying sink has accepted
    encryptor,        \* the EncryptorLE31's chunk counter
    encryption_space, \* Writer.encryption_space
    wciphertext,      \* Writer.ciphertext: sealed bytes not yet accepted by the sink
    wbuf,             \* the caller's current write: which logical chunk, its plaintext
                      \* length, and whether the last poll_write for it returned Pending
    sealed,           \* every chunk sealed so far, in sealing order
    wres,             \* what the last Writer call returned
    wtrace            \* what the last Writer call did with the sink

writerVars == <<sink, encryptor, encryption_space, wciphertext, wbuf, sealed, wres, wtrace>>

vars == <<roomVars, readerVars, writerVars>>

(***************************************************************************)
(* Bounds of the model.                                                    *)
(***************************************************************************)
NumRoomIds == 2     \* room ids the random generator can draw
MaxCalls == 4       \* create_room, update_client and set_client_done calls in a run
NumAddrs == 1       \* distinct socket addresses per family

RoomIds == 1..NumRoomIds
Addrs == 1..NumAddrs
Families == {"v4", "v6"}

(***************************************************************************)
(* Contact, FullContact (lib.rs) and Client (global_state.rs).             *)
(***************************************************************************)
None == 0

ContactDefault == [v6 |-> None, v4 |-> None]

FullContactDefault == [private |-> ContactDefault, public |-> ContactDefault]

ClientDefault == [contact |-> FullContactDefault, waiting |-> None]

NoVal == <<>>

\* usize::from(is_creator)
ClientIndex(is_creator) == IF is_creator THEN 1 ELSE 0

PeerIndexSelf(is_creator) == IF is_creator THEN 1 ELSE 0

\* usize::from(!is_creator)
PeerIndex(is_creator) == IF is_creator THEN 0 ELSE 1

PeerIsWaitingAlways(room, peer_i) == TRUE

\* peer.waiting.is_some()
PeerIsWaiting(room, peer_i) == room.cl[peer_i].waiting # None

IdIsFreeAlways(rs, room_id) == TRUE

\* !rooms.contains_key(&room_id): the loop of create_room ends on such an id
IdIsFree(rs, room_id) == room_id \notin DOMAIN rs

WhichContactPublic(public) == "public"

\* if public { &mut contact.public } else { &mut contact.private }
WhichContact(public) == IF public THEN "public" ELSE "private"

\* rooms.remove(&room_id)
RemoveRoom(rs, room_id) == [r \in (DOMAIN rs) \ {room_id} |-> rs[r]]

\* oneshot::channel(): the sender goes into the slot, the receiver to the caller.
\* gen and creator record which room and slot the call was made for.
NewHandle(gen, is_creator) ==
    [gen |-> gen, creator |-> is_creator, tx |-> "live", rx |-> "held", val |-> NoVal]

\* A oneshot::Sender dropped without sending: the receiver will see RecvError.
DropSender(hs, h, why) ==
    IF h = None THEN hs ELSE [hs EXCEPT ![h].tx = why]

\* oneshot::Sender::send with a live receiver.
Send(hs, h, v) == [hs EXCEPT ![h].tx = "sent", ![h].val = v]

\* What the caller of the last registry operation got: "ok", "NoSuchRoom" (the
\* ServerError) or "panic".
Ret(op, room_id, is_creator, res, h) == res

(***************************************************************************)
(* Init: State::default().                                                 *)
(***************************************************************************)
RoomInit ==
    /\ rooms = <<>>
    /\ poisoned = FALSE
    /\ handles = <<>>
    /\ timers = <<>>
    /\ nextGen = 1
    /\ ncalls = 0
    /\ ret = Ret("none", 0, FALSE, "none", None)

\* self.rooms.lock().unwrap() on a poisoned mutex panics in the caller.
LockPanics(op, room_id, is_creator) ==
    /\ poisoned
    /\ ret' = Ret(op, room_id, is_creator, "panic", None)
    /\ UNCHANGED <<rooms, poisoned, handles, timers, nextGen, ncalls>>
    /\ UNCHANGED <<readerVars, writerVars>>

\* create_room: room_id is the id generate_room_id finally returns, one that is
\* not a key of the map. room_timeout(room_id) spawns the eviction task.
CreateRoom(room_id) ==
    /\ ncalls < MaxCalls
    /\ \/ LockPanics("create_room", room_id, FALSE)
       \/ /\ ~poisoned
          /\ IdIsFree(rooms, room_id)
          /\ rooms' = [r \in (DOMAIN rooms) \cup {room_id} |->
                          IF r = room_id
                          THEN [gen |-> nextGen, cl |-> [i \in {0, 1} |-> ClientDefault]]
                          ELSE rooms[r]]
          /\ timers' = Append(timers, [id |-> room_id, gen |-> nextGen])
          /\ nextGen' = nextGen + 1
          /\ ncalls' = ncalls + 1
          /\ ret' = Ret("create_room", room_id, FALSE, "ok", None)
          /\ UNCHANGED <<poisoned, handles, readerVars, writerVars>>

\* update_client
UpdateClient(room_id, is_creator, family, addr, public) ==
    /\ ncalls < MaxCalls
    /\ \/ LockPanics("update_client", room_id, is_creator)
       \/ /\ ~poisoned
          /\ room_id \notin DOMAIN rooms
          /\ ret' = Ret("update_client", room_id, is_creator, "NoSuchRoom", None)
          /\ UNCHANGED <<rooms, poisoned, handles, timers, nextGen, ncalls>>
          /\ UNCHANGED <<readerVars, writerVars>>
       \/ /\ ~poisoned
          /\ room_id \in DOMAIN rooms
          /\ LET i == ClientIndex(is_creator)
                 which == WhichContact(public)
             IN rooms' = [rooms EXCEPT ![room_id].cl[i].contact[which][family] = addr]
          /\ ncalls' = ncalls + 1
          /\ ret' = Ret("update_client", room_id, is_creator, "ok", None)
          /\ UNCHANGED <<poisoned, handles, timers, nextGen, readerVars, writerVars>>

\* set_client_done, lines 87-118, on a room that exists.
DoneOnRoom(room_id, is_creator) ==
    LET client_i == ClientIndex(is_creator)
        peer_i == PeerIndex(is_creator)
        h == Len(handles) + 1
        old == rooms[room_id].cl[client_i].waiting
        \* client.waiting = Some(tx): the slot's earlier sender is dropped
        room1 == [rooms[room_id] EXCEPT !.cl[client_i].waiting = h]
        hs1 == Append(DropSender(handles, old, "replaced"),
                      NewHandle(room1.gen, is_creator))
        client_info == room1.cl[client_i].contact
        peer_info == room1.cl[peer_i].contact
        \* client.waiting.take().unwrap().send(..).unwrap(): rx is still in scope
        room2 == [room1 EXCEPT !.cl[client_i].waiting = None]
        hs2 == Send(hs1, h, <<client_info.public, peer_info>>)
        peer_h == room2.cl[peer_i].waiting
        room3 == [room2 EXCEPT !.cl[peer_i].waiting = None]
    IN  IF ~PeerIsWaiting(room1, peer_i)
        THEN /\ rooms' = [rooms EXCEPT ![room_id] = room1]
             /\ handles' = hs1
             /\ ret' = Ret("set_client_done", room_id, is_creator, "ok", h)
             /\ UNCHANGED poisoned
        ELSE IF peer_h = None
        THEN \* peer.waiting.take().unwrap() on None: panic; rx is dropped unwinding
             /\ rooms' = [rooms EXCEPT ![room_id] = room3]
             /\ handles' = [hs2 EXCEPT ![h].rx = "dropped"]
             /\ poisoned' = TRUE
             /\ ret' = Ret("set_client_done", room_id, is_creator, "panic", None)
        ELSE IF hs2[peer_h].rx = "dropped"
        THEN \* send returns Err (receiver gone), unwrap panics with the lock held
             /\ rooms' = [rooms EXCEPT ![room_id] = room3]
             /\ handles' = [DropSender(hs2, peer_h, "unsent") EXCEPT ![h].rx = "dropped"]
             /\ poisoned' = TRUE
             /\ ret' = Ret("set_client_done", room_id, is_creator, "panic", None)
        ELSE /\ rooms' = RemoveRoom(rooms, room_id)
             /\ handles' = Send(hs2, peer_h, <<peer_info.public, client_info>>)
             /\ ret' = Ret("set_client_done", room_id, is_creator, "ok", h)
             /\ UNCHANGED poisoned

\* set_client_done
SetClientDone(room_id, is_creator) ==
    \/ LockPanics("set_client_done", room_id, is_creator)
    \/ /\ ~poisoned
       /\ room_id \notin DOMAIN rooms
       /\ ret' = Ret("set_client_done", room_id, is_creator, "NoSuchRoom", None)
       /\ UNCHANGED <<rooms, poisoned, handles, timers, nextGen, ncalls>>
       /\ UNCHANGED <<readerVars, writerVars>>
    \/ /\ ~poisoned
       /\ room_id \in DOMAIN rooms
       /\ ncalls < MaxCalls
       /\ DoneOnRoom(room_id, is_creator)
       /\ ncalls' = ncalls + 1
       /\ UNCHANGED <<timers, nextGen, readerVars, writerVars>>

\* A client disconnects: the task awaiting the Receiver ends and drops it.
DropHandle(h) ==
    /\ h \in DOMAIN handles
    /\ handles[h].rx = "held"
    /\ handles[h].tx = "live"
    /\ handles' = [handles EXCEPT ![h].rx = "dropped"]
    /\ UNCHANGED <<rooms, poisoned, timers, nextGen, ncalls, ret, readerVars, writerVars>>

\* The task spawned by room_timeout wakes after its sleep: lock, remove.
\* The senders still stored in the removed room are dropped with it.
RoomTimeout ==
    /\ timers # <<>>
    /\ timers' = Tail(timers)
    /\ LET room_id == Head(timers).id
       IN IF poisoned
          THEN \* lock().unwrap() panics inside the task; nothing is removed
               UNCHANGED <<rooms, handles>>
          ELSE /\ rooms' = RemoveRoom(rooms, room_id)
               /\ handles' =
                    IF room_id \in DOMAIN rooms
                    THEN DropSender(DropSender(handles, rooms[room_id].cl[0].waiting, "evicted"),
                                    rooms[room_id].cl[1].waiting, "evicted")
                    ELSE handles
    /\ UNCHANGED <<poisoned, nextGen, ncalls, ret, readerVars, writerVars>>

NextRoom ==
    \/ \E room_id \in RoomIds : CreateRoom(room_id)
    \/ \E room_id \in RoomIds, is_creator \in BOOLEAN, family \in Families,
          addr \in Addrs, public \in BOOLEAN :
            UpdateClient(room_id, is_creator, family, addr, public)
    \/ \E room_id \in RoomIds, is_creator \in BOOLEAN : SetClientDone(room_id, is_creator)
    \/ \E h \in 1..MaxCalls : DropHandle(h)
    \/ RoomTimeout

(***************************************************************************)
(* Bytes on the wire. A byte is a record: k = "n" for a byte with the      *)
(* plain numeric value v (the length header), k = "c" for byte i of the    *)
(* AEAD output of the chunk sealed under counter c, encrypting plaintext   *)
(* byte v, k = "t" for a byte of that chunk's tag (v is the plaintext      *)
(* length), k = "x" for a byte altered in transit.                         *)
(***************************************************************************)
TAG_SIZE == 2           \* bytes of Poly1305 tag appended to a sealed chunk (16), scaled
HEADER_LEN == 4         \* bytes of the big-endian length header
MAX_CHUNK_SIZE == 6     \* crate::MAX_CHUNK_SIZE, scaled
MaxPlain == 2           \* longest plaintext given to one write call
MaxChunks == 2          \* chunks in a stream

NumByte(v) == [k |-> "n", c |-> 0, i |-> 0, v |-> v]

AlteredByte == [k |-> "x", c |-> 0, i |-> 0, v |-> 0]

\* u32::to_be_bytes of a length (`as u32` keeps every length below 2^32)
U32ToBe(x) ==
    <<NumByte(x \div 16777216), NumByte((x \div 65536) % 256),
      NumByte((x \div 256) % 256), NumByte(x % 256)>>

\* u32::from_be_bytes
U32FromBe(b) == ((b[1].v * 256 + b[2].v) * 256 + b[3].v) * 256 + b[4].v

\* EncryptorLE31::encrypt_next_in_place under counter ctr: plaintext length +
\* TAG_SIZE bytes that only (ctr, plaintext) produces.
Seal(ctr, plaintext) ==
    [j \in 1..(Len(plaintext) + TAG_SIZE) |->
        IF j <= Len(plaintext)
        THEN [k |-> "c", c |-> ctr, i |-> j, v |-> plaintext[j]]
        ELSE [k |-> "t", c |-> ctr, i |-> j, v |-> Len(plaintext)]]

\* DecryptorLE31::decrypt_next_in_place under counter ctr: the plaintext when
\* msg is exactly what was sealed under ctr, an error otherwise.
OpenOk(ctr, msg) ==
    /\ Len(msg) >= TAG_SIZE
    /\ msg = Seal(ctr, [j \in 1..(Len(msg) - TAG_SIZE) |-> msg[j].v])

Open(ctr, msg) == [j \in 1..(Len(msg) - TAG_SIZE) |-> msg[j].v]

\* The plaintext a caller writes in one call, by its length.
Plain(n) == [j \in 1..n |-> j]

\* Writer::poll_write, lines 145-153: the frame built in encryption_space.
WriterFrame(ctr, buf) ==
    LET aead == Seal(ctr, buf)
    IN U32ToBe(Len(aead) + 4) \o aead

\* The on-wire chunk of the transport's format: the header holds the number of
\* AEAD bytes that follow it.
FramedChunk(ctr, buf) ==
    LET aead == Seal(ctr, buf)
    IN U32ToBe(Len(aead)) \o aead

RECURSIVE Concat(_)
Concat(ss) == IF ss = <<>> THEN <<>> ELSE Head(ss) \o Concat(Tail(ss))

\* Chunk lists: each entry is the plaintext length of a chunk.
ChunkLists(maxlen) ==
    UNION {[1..n -> 0..maxlen] : n \in 0..MaxChunks}

PlainOf(lens) == Concat([j \in 1..Len(lens) |-> Plain(lens[j])])

FramedStream(lens) == Concat([j \in 1..Len(lens) |-> FramedChunk(j - 1, Plain(lens[j]))])

WriterStream(lens) == Concat([j \in 1..Len(lens) |-> WriterFrame(j - 1, Plain(lens[j]))])

\* One byte of the first chunk altered in transit: a header byte replaced by
\* another value, or a byte of the AEAD output replaced.
HeaderValues == 0..(2 * MAX_CHUNK_SIZE + 1)

Alterations(w, firstlen) ==
    {[w EXCEPT ![HEADER_LEN] = NumByte(v)] : v \in HeaderValues \ {w[HEADER_LEN].v}}
    \cup {[w EXCEPT ![j] = NumByte(1)] : j \in 1..(HEADER_LEN - 1)}
    \cup {[w EXCEPT ![j] = AlteredByte] : j \in (HEADER_LEN + 1)..(HEADER_LEN + firstlen + TAG_SIZE)}

\* The stream cut short inside its last chunk: the last byte missing, or all of
\* the last chunk but the first byte of its header.
Truncations(w) ==
    {SubSeq(w, 1, Len(w) - k) : k \in {1, HEADER_LEN + TAG_SIZE - 1}}

(***************************************************************************)
(* HelperBuf: a byte vector buf of fixed capacity with a read cursor.      *)
(***************************************************************************)
HelperBufWithCapacity(capacity) == [buf |-> <<>>, cursor |-> 0, cap |-> capacity]

\* HelperBuf::data: the bytes after the cursor
Data(hb) == SubSeq(hb.buf, hb.cursor + 1, Len(hb.buf))

\* HelperBuf::spare_capacity_len
SpareCapacityLen(hb) == hb.cap - Len(hb.buf)

\* HelperBuf::advance_cursor: a fully read buffer is reset
AdvanceCursor(hb, n) ==
    IF hb.cursor + n >= Len(hb.buf)
    THEN [hb EXCEPT !.buf = <<>>, !.cursor = 0]
    ELSE [hb EXCEPT !.cursor = hb.cursor + n]

\* HelperBuf::wrap: the unread bytes move to the front
Wrap(hb) == [hb EXCEPT !.buf = Data(hb), !.cursor = 0]

\* peek_cipher_chunk: the length the header announces when the header and that
\* many bytes after it are in the buffer, -1 for None
PeekCipherChunk(hb) ==
    LET d == Data(hb)
    IN IF Len(d) < HEADER_LEN THEN -1
       ELSE LET len == U32FromBe(SubSeq(d, 1, HEADER_LEN))
            IN IF HEADER_LEN + len <= Len(d) THEN len ELSE -1

\* decrypt_all_full_chunks on s = [ciphertext, cleartext, decryptor, err]
RECURSIVE DecryptLoop(_)
DecryptLoop(s) ==
    LET msg_len == PeekCipherChunk(s.ciphertext)
    IN IF msg_len = -1 \/ SpareCapacityLen(s.cleartext) < msg_len
       THEN s
       ELSE LET msg == SubSeq(Data(s.ciphertext), HEADER_LEN + 1, HEADER_LEN + msg_len)
                adv == AdvanceCursor(s.ciphertext, msg_len + HEADER_LEN)
            IN IF ~OpenOk(s.decryptor, msg)
               THEN \* `?` at line 82 returns before unsplit (line 84): cleartext.buf
                    \* keeps only what split_off (line 74) left it, its length
                    [s EXCEPT !.ciphertext = adv, !.err = TRUE,
                              !.cleartext.cap = Len(s.cleartext.buf)]
               ELSE DecryptLoop([s EXCEPT
                        !.ciphertext = adv,
                        !.cleartext.buf = s.cleartext.buf \o Open(s.decryptor, msg),
                        !.decryptor = s.decryptor + 1])

DecryptAllFullChunks(s) ==
    LET t == DecryptLoop(s)
    IN IF ~t.err /\ PeekCipherChunk(t.ciphertext) = -1 /\ SpareCapacityLen(t.ciphertext) = 0
       THEN [t EXCEPT !.ciphertext = Wrap(t.ciphertext)]
       ELSE t

ReaderState == [ciphertext |-> ciphertext, cleartext |-> cleartext,
                decryptor |-> decryptor, err |-> FALSE]

Idle == [kind |-> "idle", want |-> 0, bytes_amount |-> 0]

NoReads == [srcPending |-> FALSE, parity |-> 0]

Res(res, n, want) == [res |-> res, n |-> n, want |-> want]

\* EncryptedReader::new, after the nonce was read from the source
ReaderInit(kind, lens, w) ==
    /\ wire = w
    /\ rpos = 0
    /\ srcEof = FALSE
    /\ stream = [kind |-> kind, lens |-> lens]
    /\ ciphertext = HelperBufWithCapacity(2 * MAX_CHUNK_SIZE)
    /\ cleartext = HelperBufWithCapacity(MAX_CHUNK_SIZE)
    /\ decryptor = 0
    /\ rcall = Idle
    /\ rres = Res("none", 0, 0)
    /\ out = <<>>
    /\ rtrace = NoReads

ReaderOff == ReaderInit("none", <<>>, <<>>)

\* The loop condition of read_if_necessary, line 112
LoopCond(bytes_amount, s) ==
    /\ bytes_amount > Len(Data(s.cleartext))
    /\ SpareCapacityLen(s.ciphertext) # 0

\* The poll returns: Ready(Err), Ready with is_eof, Pending, or Ready with the
\* cleartext handed out (poll_read lines 145-152, poll_fill_buf line 165).
Return(s, call, res) ==
    /\ ciphertext' = s.ciphertext
    /\ decryptor' = s.decryptor
    /\ rcall' = Idle
    /\ IF res = "data" /\ call.kind = "read"
       THEN LET num_bytes == IF call.want < Len(Data(s.cleartext))
                             THEN call.want ELSE Len(Data(s.cleartext))
            IN /\ out' = out \o SubSeq(Data(s.cleartext), 1, num_bytes)
               /\ cleartext' = AdvanceCursor(s.cleartext, num_bytes)
               /\ rres' = Res("data", num_bytes, call.want)
       ELSE /\ out' = out
            /\ cleartext' = s.cleartext
            /\ rres' = Res(res, IF res = "data" THEN Len(Data(s.cleartext)) ELSE 0, call.want)

\* After decrypt_all_full_chunks: go round the loop of read_if_necessary or
\* leave it with Ready(Ok(false)).
LoopOrReturn(s, call) ==
    IF s.err THEN Return(s, call, "err")
    ELSE IF LoopCond(call.bytes_amount, s)
    THEN /\ ciphertext' = s.ciphertext
         /\ cleartext' = s.cleartext
         /\ decryptor' = s.decryptor
         /\ rcall' = call
         /\ UNCHANGED <<rres, out>>
    ELSE Return(s, call, "data")

\* The debug assertions of read_if_necessary, lines 101-102
CapacitiesIntact(ct, cl) == cl.cap = MAX_CHUNK_SIZE /\ ct.cap = 2 * MAX_CHUNK_SIZE

\* read_if_necessary up to the loop, lines 101-112, for poll_read (max_bytes =
\* Some(buf.remaining())) and poll_fill_buf (max_bytes = None, want = -1)
PollStart(kind, want) ==
    /\ rcall = Idle
    /\ rres.res # "panic"
    /\ rtrace' = NoReads
    /\ \/ \* a build with debug assertions: the assertion of line 101 or 102 fails
          /\ ~CapacitiesIntact(ciphertext, cleartext)
          /\ rres' = Res("panic", 0, want)
          /\ UNCHANGED <<ciphertext, cleartext, decryptor, rcall, out>>
       \/ \* the assertions hold, or the build has none
          LET all == Len(Data(cleartext)) + SpareCapacityLen(cleartext)
              bytes_amount == IF kind = "read" /\ want < all THEN want ELSE all
              call == [kind |-> kind, want |-> want, bytes_amount |-> bytes_amount]
          IN LoopOrReturn(DecryptAllFullChunks(ReaderState), call)
    /\ UNCHANGED <<wire, rpos, srcEof, stream, roomVars, writerVars>>

PollRead(want) == PollStart("read", want)

PollFillBuf == PollStart("fill", -1)

\* AsyncBufRead::consume
Consume(amt) ==
    /\ rcall = Idle
    /\ rres.res = "data"
    /\ amt <= Len(Data(cleartext))
    /\ out' = out \o SubSeq(Data(cleartext), 1, amt)
    /\ cleartext' = AdvanceCursor(cleartext, amt)
    /\ rres' = Res("none", 0, 0)
    /\ UNCHANGED <<wire, rpos, srcEof, stream, ciphertext, decryptor, rcall, rtrace>>
    /\ UNCHANGED <<roomVars, writerVars>>

SuspendOnPendingAlways(cl) == TRUE

\* line 120: on a Pending source the poll is Pending when no cleartext is there
SuspendOnPending(cl) == Data(cl) = <<>>

\* One turn of the loop, lines 113-125: inner_read, where the source returns
\* Pending.
InnerReadPending ==
    /\ rcall # Idle
    /\ rtrace' = [srcPending |-> TRUE, parity |-> 1 - rtrace.parity]
    /\ IF SuspendOnPending(cleartext)
       THEN Return(ReaderState, rcall, "pending")
       ELSE Return(ReaderState, rcall, "data")
    /\ UNCHANGED <<wire, rpos, srcEof, stream, roomVars, writerVars>>

\* One turn of the loop where the source's poll_read is Ready with n bytes put
\* in the spare capacity (n = 0 only at the end of the stream).
InnerReadReady(n) ==
    /\ rcall # Idle
    /\ n <= SpareCapacityLen(ciphertext)
    /\ n <= Len(wire) - rpos
    /\ (n = 0) = (rpos = Len(wire))
    /\ rpos' = rpos + n
    /\ srcEof' = (srcEof \/ n = 0)
    /\ rtrace' = [rtrace EXCEPT !.parity = 1 - rtrace.parity]
    /\ LET s == DecryptAllFullChunks(
                  [ReaderState EXCEPT
                     !.ciphertext.buf = ciphertext.buf \o SubSeq(wire, rpos + 1, rpos + n)])
       IN IF ~s.err /\ Data(s.ciphertext) = <<>> /\ Data(s.cleartext) = <<>>
          THEN Return(s, rcall, "eof")
          ELSE LoopOrReturn(s, rcall)
    /\ UNCHANGED <<wire, stream, roomVars, writerVars>>

ReadSizes == {1, MAX_CHUNK_SIZE}

NextReader ==
    \/ \E want \in ReadSizes : PollRead(want)
    \/ PollFillBuf
    \/ \E amt \in 1..MAX_CHUNK_SIZE : Consume(amt)
    \/ InnerReadPending
    \/ \E n \in 0..(2 * MAX_CHUNK_SIZE) : InnerReadReady(n)


(***************************************************************************)
(* Writer (client/encrypted_connection.rs) over a sink that accepts all, a  *)
(* prefix, or nothing (Pending) of what it is offered.                     *)
(***************************************************************************)
MaxSeals == 2           \* chunks the encryptor seals in a run

NoWrite == [idx |-> 0, len |-> 0, retry |-> FALSE]

\* What a poll did with the sink: whether a call into the sink returned Pending,
\* how many queued bytes the sink took, and the poll_flush / poll_shutdown calls
\* made on the sink, each with the number of bytes in the Writer's queue at that
\* moment and whether the sink answered Ready.
NoTrace == [sinkPending |-> FALSE, drained |-> 0, deleg |-> <<>>]

\* Writer::new: nothing is queued and nothing is written to the sink.
WriterInit ==
    /\ sink = <<>>
    /\ encryptor = 0
    /\ encryption_space = <<>>
    /\ wciphertext = <<>>
    /\ wbuf = NoWrite
    /\ sealed = <<>>
    /\ wres = "none"
    /\ wtrace = NoTrace

\* flush_local_buffer when the queue is not empty and the sink's poll_write is
\* Ready(n): the queue after drain(0..n)
Drain(queue, n) == SubSeq(queue, n + 1, Len(queue))

\* What the sink may answer to poll_write(bytes): Pending (-1) or Ready(n)
SinkAnswers(bytes) == {-1} \cup 1..Len(bytes)

\* The sink's answer inside flush_local_buffer: none (0) when the queue is empty
\* and the sink is not called.
FlushAnswers(queue) == IF queue = <<>> THEN {0} ELSE SinkAnswers(queue)

FlushLocalReadyAlways(queue) == TRUE

\* flush_local_buffer, lines 127-131: Ready when the queue is empty, else Pending
FlushLocalReady(queue) == queue = <<>>

\* flush_local_buffer on the queue, the sink answering a1: the bytes the sink
\* took, the queue left, whether the result is Ready, and whether the sink
\* returned Pending.
FlushLocalBuffer(queue, a1) ==
    IF a1 = -1
    THEN [wrote |-> <<>>, queue |-> queue, ready |-> FALSE, sinkPending |-> TRUE]
    ELSE [wrote |-> SubSeq(queue, 1, a1), queue |-> Drain(queue, a1),
          ready |-> FlushLocalReady(Drain(queue, a1)), sinkPending |-> FALSE]

\* poll_write, lines 143-161, once flush_local_buffer returned Ready: seal buf,
\* prepend the header, offer the frame to the sink (answer a2).
SealAndWrite(queue, sunk, w, a2) ==
    LET frame == WriterFrame(encryptor, Plain(w.len))
    IN /\ encryption_space' = frame
       /\ encryptor' = encryptor + 1
       /\ sealed' = Append(sealed, [idx |-> w.idx, ctr |-> encryptor, len |-> w.len])
       /\ a2 \in SinkAnswers(frame)
       /\ wtrace' = [sinkPending |-> a2 = -1, drained |-> Len(sunk) - Len(sink), deleg |-> <<>>]
       /\ IF a2 = -1
          THEN \* ready! returns Pending: the frame stays behind in encryption_space
               /\ sink' = sunk
               /\ wciphertext' = queue
               /\ wbuf' = [w EXCEPT !.retry = TRUE]
               /\ wres' = "Pending"
          ELSE \* the unwritten suffix is queued, then todo!() panics
               /\ sink' = sunk \o SubSeq(frame, 1, a2)
               /\ wciphertext' = queue \o Drain(frame, a2)
               /\ wbuf' = [w EXCEPT !.retry = FALSE]
               /\ wres' = "panic"

\* Writer::poll_write(buf) where buf is Plain(len). A call that follows a
\* Pending one is the retry of the same write; any other call starts the next
\* logical chunk. a1 and a2 are the sink's answers to the two poll_write calls.
PollWrite(len, a1, a2) ==
    /\ encryptor < MaxSeals
    /\ wbuf.retry => len = wbuf.len
    /\ a1 \in FlushAnswers(wciphertext)
    /\ LET w == IF wbuf.retry THEN wbuf
                ELSE [idx |-> wbuf.idx + 1, len |-> len, retry |-> FALSE]
           f == FlushLocalBuffer(wciphertext, a1)
       IN IF ~f.ready
          THEN \* ready!(flush_local_buffer) returns Pending
               /\ a2 = -1
               /\ sink' = sink \o f.wrote
               /\ wciphertext' = f.queue
               /\ wbuf' = [w EXCEPT !.retry = TRUE]
               /\ wres' = "Pending"
               /\ wtrace' = [sinkPending |-> f.sinkPending, drained |-> Len(f.wrote),
                             deleg |-> <<>>]
               /\ UNCHANGED <<encryptor, encryption_space, sealed>>
          ELSE SealAndWrite(f.queue, sink \o f.wrote, w, a2)
    /\ UNCHANGED <<roomVars, readerVars>>

\* Writer::poll_flush as a function of the sink's answers: flush_local_buffer,
\* then the sink's poll_flush (Ready when fl, else Pending).
FlushSteps(a1, fl) ==
    LET f == FlushLocalBuffer(wciphertext, a1)
    IN [sink |-> sink \o f.wrote,
        queue |-> f.queue,
        res |-> IF f.ready /\ fl THEN "Ready" ELSE "Pending",
        sinkPending |-> f.sinkPending \/ (f.ready /\ ~fl),
        drained |-> Len(f.wrote),
        deleg |-> IF f.ready
                  THEN <<[op |-> "flush", queued |-> Len(f.queue), ready |-> fl]>>
                  ELSE <<>>,
        flushed |-> f.ready]

\* Writer::poll_flush
PollFlush(a1, fl) ==
    /\ a1 \in FlushAnswers(wciphertext)
    /\ LET s == FlushSteps(a1, fl)
       IN /\ ~s.flushed => ~fl
          /\ sink' = s.sink
          /\ wciphertext' = s.queue
          /\ wres' = s.res
          /\ wtrace' = [sinkPending |-> s.sinkPending, drained |-> s.drained,
                        deleg |-> s.deleg]
    /\ UNCHANGED <<encryptor, encryption_space, wbuf, sealed>>
    /\ UNCHANGED <<roomVars, readerVars>>

\* Writer::poll_shutdown: ready!(poll_flush), then the sink's poll_shutdown
\* (Ready when sd, else Pending).
PollShutdown(a1, fl, sd) ==
    /\ a1 \in FlushAnswers(wciphertext)
    /\ LET s == FlushSteps(a1, fl)
       IN /\ ~s.flushed => ~fl
          /\ s.res = "Pending" => ~sd
          /\ sink' = s.sink
          /\ wciphertext' = s.queue
          /\ IF s.res = "Pending"
             THEN /\ wres' = "Pending"
                  /\ wtrace' = [sinkPending |-> s.sinkPending, drained |-> s.drained,
                                deleg |-> s.deleg]
             ELSE /\ wres' = IF sd THEN "Ready" ELSE "Pending"
                  /\ wtrace' = [sinkPending |-> ~sd, drained |-> s.drained,
                                deleg |-> Append(s.deleg, [op |-> "shutdown",
                                                           queued |-> Len(s.queue),
                                                           ready |-> sd])]
    /\ UNCHANGED <<encryptor, encryption_space, wbuf, sealed>>
    /\ UNCHANGED <<roomVars, readerVars>>

\* The plaintext lengths a caller writes: short ones, and one longer than the
\* maximum chunk size.
WriteLens == (0..MaxPlain) \cup {MAX_CHUNK_SIZE + 1}

MaxFrame == HEADER_LEN + MAX_CHUNK_SIZE + 1 + TAG_SIZE

NextWriter ==
    \/ \E len \in WriteLens, a1 \in -1..MaxFrame, a2 \in -1..MaxFrame : PollWrite(len, a1, a2)
    \/ \E a1 \in -1..MaxFrame, fl \in BOOLEAN : PollFlush(a1, fl)
    \/ \E a1 \in -1..MaxFrame, fl \in BOOLEAN, sd \in BOOLEAN : PollShutdown(a1, fl, sd)

\* The Writer alone.
InitWriter == RoomInit /\ ReaderOff /\ WriterInit

SpecWriter == InitWriter /\ [][NextWriter]_vars

\* The reader on a stream in the transport's format, intact ("framed") or with
\* one byte of its first chunk altered ("altered") or cut short inside its last
\* chunk ("truncated"), or on the stream the Writer hands to its sink ("writer").
InitReader ==
    /\ RoomInit
    /\ WriterInit
    /\ \/ \E lens \in ChunkLists(MAX_CHUNK_SIZE - TAG_SIZE) :
            \/ ReaderInit("framed", lens, FramedStream(lens))
            \/ /\ lens # <<>>
               /\ \E w \in Alterations(FramedStream(lens), lens[1]) :
                      ReaderInit("altered", lens, w)
            \/ /\ lens # <<>>
               /\ \E w \in Truncations(FramedStream(lens)) :
                      ReaderInit("truncated", lens, w)
       \/ \E lens \in ChunkLists(MaxPlain) :
            ReaderInit("writer", lens, WriterStream(lens))

SpecReader == InitReader /\ [][NextReader]_vars

\* A poll runs to its return: the loop of read_if_necessary is code of one
\* synchronous call, so its next turn is taken whenever there is one.
LoopStep ==
    \/ InnerReadPending
    \/ \E n \in 0..(2 * MAX_CHUNK_SIZE) : InnerReadReady(n)

SpecReaderLive == InitReader /\ [][NextReader]_vars /\ WF_vars(LoopStep)


\* The registry alone.
InitRoom == RoomInit /\ ReaderOff /\ WriterInit

SpecRoom == InitRoom /\ [][NextRoom]_vars

(***************************************************************************)
(* Properties of the room registry.                                        *)
(***************************************************************************)
\* The two slots of a room as the claims name them.
SlotOf(is_creator) == IF is_creator THEN 1 ELSE 0

OtherSlotOf(is_creator) == IF is_creator THEN 0 ELSE 1

\* set_client_done(room_id, is_creator) is called with the lock healthy and the
\* room in the map.
DoneCalled(room_id, is_creator) ==
    /\ ~poisoned
    /\ room_id \in DOMAIN rooms
    /\ SetClientDone(room_id, is_creator)

Fulfilled(h) == handles[h].val # NoVal

\* C1: whenever set_client_done is called on a room whose peer slot is already
\* waiting, the match happens in that call: the call returns, the creator's
\* handle holds (creator's public contact, joiner's full contact), the joiner's
\* handle holds (joiner's public contact, creator's full contact) and the room
\* is no longer in the registry.
C1_MatchExactlyOnce ==
    [][\A room_id \in RoomIds, is_creator \in BOOLEAN :
        (/\ DoneCalled(room_id, is_creator)
         /\ rooms[room_id].cl[OtherSlotOf(is_creator)].waiting # None)
        => LET h == Len(handles) + 1
               peer_h == rooms[room_id].cl[OtherSlotOf(is_creator)].waiting
               creator_h == IF is_creator THEN h ELSE peer_h
               joiner_h == IF is_creator THEN peer_h ELSE h
               cc == rooms[room_id].cl[SlotOf(TRUE)].contact
               jc == rooms[room_id].cl[SlotOf(FALSE)].contact
           IN /\ ret' = "ok"
              /\ room_id \notin DOMAIN rooms'
              /\ handles'[creator_h].val = <<cc.public, jc>>
              /\ handles'[joiner_h].val = <<jc.public, cc>>]_vars

\* C4: no registry call panics and the registry lock is never poisoned.
C4_NeverPanics == ret # "panic" /\ ~poisoned

\* C7: a room leaves the registry only in the set_client_done call that matches
\* its two clients or when the eviction task spawned for that very room fires;
\* an eviction task whose room is no longer in the registry changes nothing.
C7_RoomLeavesOnlyByMatchOrOwnTimeout ==
    [][/\ \A room_id \in DOMAIN rooms :
            (room_id \notin DOMAIN rooms' \/ rooms'[room_id].gen # rooms[room_id].gen)
            => \/ \E is_creator \in BOOLEAN :
                    /\ DoneCalled(room_id, is_creator)
                    /\ rooms[room_id].cl[OtherSlotOf(is_creator)].waiting # None
               \/ /\ RoomTimeout
                  /\ Head(timers).gen = rooms[room_id].gen
       /\ (/\ RoomTimeout
           /\ \A room_id \in DOMAIN rooms : rooms[room_id].gen # Head(timers).gen)
          => rooms' = rooms]_vars

\* C8: once the eviction task of a room has run (its timeout has elapsed), the
\* room is not in the registry any more: every room still in the registry has
\* its own eviction task pending; and a set_client_done or update_client call
\* on an id that is not in the registry returns NoSuchRoom.
C8_TimeoutEvicts ==
    /\ [](\A room_id \in DOMAIN rooms :
            \E i \in DOMAIN timers : timers[i].gen = rooms[room_id].gen)
    /\ [][\A room_id \in RoomIds \ DOMAIN rooms :
            (\/ \E is_creator \in BOOLEAN : SetClientDone(room_id, is_creator)
             \/ \E is_creator \in BOOLEAN, family \in Families, addr \in Addrs,
                   public \in BOOLEAN :
                     UpdateClient(room_id, is_creator, family, addr, public))
            => ret' = "NoSuchRoom"]_vars

\* C9: a set_client_done call for a slot whose peer slot is not waiting produces
\* no match, keeps the room and puts the new handle in the slot, abandoning the
\* slot's earlier handle; an abandoned handle never holds a value, and a handle
\* that holds a value is the last one returned for its slot.
C9_RepeatedDone ==
    /\ [][\A room_id \in RoomIds, is_creator \in BOOLEAN :
            (/\ DoneCalled(room_id, is_creator)
             /\ rooms[room_id].cl[OtherSlotOf(is_creator)].waiting = None)
            => LET h == Len(handles) + 1
                   old == rooms[room_id].cl[SlotOf(is_creator)].waiting
               IN /\ ret' = "ok"
                  /\ room_id \in DOMAIN rooms'
                  /\ rooms'[room_id].gen = rooms[room_id].gen
                  /\ rooms'[room_id].cl[SlotOf(is_creator)].waiting = h
                  /\ rooms'[room_id].cl[OtherSlotOf(is_creator)].waiting = None
                  /\ DOMAIN handles' = 1..h
                  /\ \A k \in 1..h : handles'[k].val = IF k = h THEN NoVal ELSE handles[k].val
                  /\ old # None => handles'[old].tx = "replaced"]_vars
    /\ [](\A h \in DOMAIN handles : handles[h].tx = "replaced" => ~Fulfilled(h))
    /\ [](\A h \in DOMAIN handles, k \in DOMAIN handles :
            (/\ h < k
             /\ handles[h].gen = handles[k].gen
             /\ handles[h].creator = handles[k].creator) => ~Fulfilled(h))

\* C9's case: a slot's first handle was replaced and the peer's later call
\* fulfilled the second one.
C9_Witness ==
    \E h \in DOMAIN handles, k \in DOMAIN handles :
        /\ h < k
        /\ handles[h].gen = handles[k].gen
        /\ handles[h].creator = handles[k].creator
        /\ handles[h].tx = "replaced"
        /\ handles[k].tx = "sent"
        /\ handles[k].rx = "held"

\* C10: a handle's value, once set, never changes; a value is set only in a
\* set_client_done call on the handle's room in which both slots are waiting
\* (the caller's new handle and the peer's stored one); a handle whose room was
\* evicted while it was pending never holds a value.
C10_SingleFulfilment ==
    /\ [][\A h \in DOMAIN handles' :
            IF h \in DOMAIN handles /\ Fulfilled(h)
            THEN handles'[h].val = handles[h].val
            ELSE handles'[h].val # NoVal
                 => \E room_id \in RoomIds, is_creator \in BOOLEAN :
                       /\ DoneCalled(room_id, is_creator)
                       /\ rooms[room_id].gen = handles'[h].gen
                       /\ rooms[room_id].cl[OtherSlotOf(is_creator)].waiting # None
                       /\ \/ h = Len(handles) + 1
                          \/ h = rooms[room_id].cl[OtherSlotOf(is_creator)].waiting]_vars
    /\ [][\A h \in DOMAIN handles :
            handles[h].tx = "evicted" => handles'[h].tx = "evicted"]_vars
    /\ [](\A h \in DOMAIN handles : handles[h].tx = "evicted" => ~Fulfilled(h))

\* C10's case: a handle that received its value in a match, while another
\* call's handle of the same room was abandoned without one.
C10_Witness ==
    \E h \in DOMAIN handles :
        /\ handles[h].tx = "sent"
        /\ handles[h].rx = "held"
        /\ Fulfilled(h)
        /\ handles[h].val[2] # FullContactDefault

C17_RoomUniqueness ==
    /\ [][\A room_id \in RoomIds :
            (CreateRoom(room_id) /\ ret' = "ok")
            => /\ room_id \notin DOMAIN rooms
               /\ DOMAIN rooms' = DOMAIN rooms \cup {room_id}
               /\ rooms'[room_id].cl = [i \in {0, 1} |-> ClientDefault]
               /\ \A r \in DOMAIN rooms : rooms'[r] = rooms[r]
               /\ handles' = handles]_vars
    /\ [][\A r \in DOMAIN rooms \cap DOMAIN rooms' :
            rooms'[r].gen = rooms[r].gen]_vars

\* C17's case: create_room returned while another room was live, so that two
\* rooms with different ids are in the registry.
C17_Witness ==
    /\ ret = "ok"
    /\ \E a \in DOMAIN rooms, b \in DOMAIN rooms :
          /\ a # b
          /\ rooms[a].gen # rooms[b].gen
          /\ rooms[b].cl = [i \in {0, 1} |-> ClientDefault]

(***************************************************************************)
(* Properties of the Writer and of EncryptedReader.                        *)
(***************************************************************************)
IsPrefix(a, b) == Len(a) <= Len(b) /\ a = SubSeq(b, 1, Len(a))

\* Every frame sealed so far, in sealing order.
AllSealed == Concat([j \in 1..Len(sealed) |-> WriterFrame(sealed[j].ctr, Plain(sealed[j].len))])

\* C2: no logical chunk is sealed twice, and the bytes the sink has accepted,
\* followed by the queued remainder, are a prefix of the sealed frames in
\* sealing order.
C2_NoLossNoReseal ==
    /\ \A a \in DOMAIN sealed, b \in DOMAIN sealed :
          a # b => sealed[a].idx # sealed[b].idx
    /\ IsPrefix(sink \o wciphertext, AllSealed)

\* A poll of the reader completed with zero bytes: is_eof, or Ready with nothing
\* put in a caller buffer that had room (an empty slice for poll_fill_buf).
ZeroByteResult ==
    /\ rcall = Idle
    /\ \/ rres.res = "eof"
       \/ rres.res = "data" /\ rres.n = 0 /\ rres.want # 0

\* C3: on the stream the Writer produced, no read fails, the bytes returned so
\* far are a prefix of the written plaintext, and when end-of-stream is
\* reported they are all of it.
C3_RoundTrip ==
    stream.kind = "writer"
    => /\ rres.res # "err"
       /\ IsPrefix(out, PlainOf(stream.lens))
       /\ ZeroByteResult => out = PlainOf(stream.lens)

\* C5: on an intact stream, a poll completes with zero bytes only after the
\* source reported end-of-stream and with both buffers empty.
C5_EofOnlyAtEnd ==
    (stream.kind = "framed" /\ ZeroByteResult)
    => /\ srcEof
       /\ Data(ciphertext) = <<>>
       /\ Data(cleartext) = <<>>

\* C6: when a byte of the first chunk was altered, the reader returns no
\* plaintext and never completes a poll with a clean zero-byte result.
C6_TamperDetected ==
    stream.kind = "altered" => (out = <<>> /\ ~ZeroByteResult)

\* The session nonce as it would appear on the wire: NONCE_LEN bytes of their own
\* kind, read by EncryptedReader::new before the first chunk.
NONCE_LEN == 8

NonceByte(j) == [k |-> "o", c |-> 0, i |-> j, v |-> 0]

\* C11: the first bytes the sink receives are the session nonce: every one of
\* the first NONCE_LEN bytes of the sink is the nonce byte of that position.
C11_NonceFirst ==
    \A j \in 1..Len(sink) : j <= NONCE_LEN => sink[j] = NonceByte(j)

\* The chunk the Writer built last, as the reader's ciphertext buffer would hold
\* it when it has arrived whole.
LastFrameBuffered == [buf |-> encryption_space, cursor |-> 0, cap |-> Len(encryption_space)]

\* C12: the header of every frame the Writer builds is the number of AEAD bytes
\* that follow it, which is the plaintext length plus the tag, and
\* peek_cipher_chunk finds exactly those bytes as the chunk.
C12_FramingAgrees ==
    encryption_space # <<>>
    => /\ U32FromBe(SubSeq(encryption_space, 1, HEADER_LEN))
            = Len(encryption_space) - HEADER_LEN
       /\ Len(encryption_space) - HEADER_LEN = sealed[Len(sealed)].len + TAG_SIZE
       /\ PeekCipherChunk(LastFrameBuffered) = Len(encryption_space) - HEADER_LEN

\* C13: every chunk the Writer builds has at most MAX_CHUNK_SIZE bytes after its
\* header, whatever the length of the plaintext given to the write call.
C13_ChunkSizeBounded ==
    encryption_space # <<>> => Len(encryption_space) - HEADER_LEN <= MAX_CHUNK_SIZE

\* C14: the sink's poll_flush and poll_shutdown are only called with the
\* Writer's queue empty, the queue is still empty when such a poll returns, and
\* poll_shutdown is only called right after a poll_flush of the same poll that
\* the sink answered Ready.
C14_FlushBeforeDelegate ==
    /\ \A j \in DOMAIN wtrace.deleg : wtrace.deleg[j].queued = 0
    /\ wtrace.deleg # <<>> => wciphertext = <<>>
    /\ \A j \in DOMAIN wtrace.deleg :
          wtrace.deleg[j].op = "shutdown"
          => /\ j > 1
             /\ wtrace.deleg[j - 1].op = "flush"
             /\ wtrace.deleg[j - 1].ready

\* C14's case: a poll_shutdown that wrote the queued remainder of a chunk to the
\* sink, flushed the sink and shut it down.
C14_Witness ==
    /\ Len(wtrace.deleg) = 2
    /\ wtrace.deleg[2].op = "shutdown"
    /\ wtrace.drained > 0
    /\ wres = "Ready"

\* C19: a Writer poll returns Pending only when a call it made into the sink
\* during that poll returned Pending.
C19_PendingOnlyFromSink ==
    wres = "Pending" => wtrace.sinkPending

\* C15: a poll that returned Pending is one in which the source returned
\* Pending and no cleartext is available; a poll in which the source returned
\* Pending while cleartext was available returned Ready with at least one byte.
C15_PendingOnlyWhenBlockedAndEmpty ==
    (rcall = Idle /\ rres.res \in {"pending", "data", "eof"})
    => /\ rres.res = "pending" => (rtrace.srcPending /\ Data(cleartext) = <<>>)
       /\ rtrace.srcPending
          => \/ rres.res = "pending"
             \/ rres.res = "data" /\ rres.n >= 1

\* C15's case: the caller asked for more than was available, the source would
\* block, and the read returned the cleartext it had.
C15_Witness ==
    /\ rcall = Idle
    /\ rtrace.srcPending
    /\ rres.res = "data"
    /\ rres.n >= 1
    /\ rres.n < rres.want

\* C18: the two buffers keep their capacities (2 * MAX_CHUNK_SIZE and
\* MAX_CHUNK_SIZE) and never hold more than that, the cursor of each stays
\* inside its bytes, the source is only read with free capacity in the
\* ciphertext buffer, and no debug assertion fails.
C18_BuffersBounded ==
    /\ CapacitiesIntact(ciphertext, cleartext)
    /\ Len(ciphertext.buf) <= 2 * MAX_CHUNK_SIZE
    /\ Len(cleartext.buf) <= MAX_CHUNK_SIZE
    /\ ciphertext.cursor <= Len(ciphertext.buf)
    /\ cleartext.cursor <= Len(cleartext.buf)
    /\ rcall # Idle => SpareCapacityLen(ciphertext) # 0
    /\ rres.res # "panic"

\* C20: every poll of the reader returns, on a stream that is intact or that
\* ends inside its last chunk.
C20_PollsTerminate ==
    (rcall # Idle /\ stream.kind \in {"framed", "truncated"}) ~> (rcall = Idle)

====
